---------------------------- MODULE Spec2Model ----------------------------
(***************************************************************************)
(* Model of ewt-gen: src/src/ewt/cli.py (the `main` pipeline and its       *)
(* helpers) and src/src/ewt/generator.py (the site emitter).               *)
(*                                                                         *)
(* Python strings are modelled as sequences of one-character strings, so   *)
(* that lower(), upper(), replace(), rstrip(), startswith() and the        *)
(* regular expressions of the source are computed, not assumed.            *)
(***************************************************************************)
EXTENDS Integers, Sequences, FiniteSets, TLC

(***************************************************************************)
(* Bounds of the model.                                                    *)
(***************************************************************************)
\* exit statuses of the compiler subprocess range over 0..MaxExitCode
MaxExitCode == 2
\* number of '/' characters appended to a publish URL: 0..MaxSlashes
MaxSlashes == 2
\* number of items of a substitution table: 0..MaxTable
MaxTable == 2
\* number of entries of the build directory: 0..MaxEnvs
MaxEnvs == 2

(***************************************************************************)
(* String primitives (str methods of Python used by the source).           *)
(***************************************************************************)
\* Optional values: None is the empty tuple and Some(x) the one-element tuple,
\* so that None differs from the empty string Some(<<>>).
None == <<>>
Some(x) == <<x>>
Val(o) == o[1]
\* Python truthiness of an optional string: neither None nor ""
Truthy(o) == o # None /\ Val(o) # <<>>

UpperChars == <<"A","B","C","D","E","F","G","H","I","J","K","L","M",
                "N","O","P","Q","R","S","T","U","V","W","X","Y","Z">>
LowerChars == <<"a","b","c","d","e","f","g","h","i","j","k","l","m",
                "n","o","p","q","r","s","t","u","v","w","x","y","z">>

LowerChar(c) ==
    IF \E i \in 1..26 : UpperChars[i] = c
    THEN LowerChars[CHOOSE i \in 1..26 : UpperChars[i] = c]
    ELSE c

UpperChar(c) ==
    IF \E i \in 1..26 : LowerChars[i] = c
    THEN UpperChars[CHOOSE i \in 1..26 : LowerChars[i] = c]
    ELSE c

\* str.lower()
Lower(s) == [i \in 1..Len(s) |-> LowerChar(s[i])]

\* str.upper()
Upper(s) == [i \in 1..Len(s) |-> UpperChar(s[i])]

\* s[i:] with a 1-based i
Drop(s, i) == SubSeq(s, i, Len(s))

\* s.startswith(p)
StartsWith(s, p) == Len(s) >= Len(p) /\ SubSeq(s, 1, Len(p)) = p

\* s.endswith(p)
EndsWith(s, p) == Len(s) >= Len(p) /\ SubSeq(s, Len(s) - Len(p) + 1, Len(s)) = p

\* whether p occurs in s at position i
OccursAt(s, p, i) == i + Len(p) - 1 <= Len(s) /\ SubSeq(s, i, i + Len(p) - 1) = p

\* p in s
Contains(s, p) == \E i \in 1..(Len(s) + 1) : OccursAt(s, p, i)

\* s.replace(p, r) for a non-empty p: leftmost, non-overlapping occurrences,
\* the inserted r is not scanned again by this call
RECURSIVE Replace(_, _, _)
Replace(s, p, r) ==
    IF Len(s) = 0 THEN <<>>
    ELSE IF OccursAt(s, p, 1) THEN r \o Replace(Drop(s, Len(p) + 1), p, r)
    ELSE <<s[1]>> \o Replace(Tail(s), p, r)

\* s.rstrip(c) for a single character c
RECURSIVE RStrip(_, _)
RStrip(s, c) ==
    IF Len(s) > 0 /\ s[Len(s)] = c THEN RStrip(SubSeq(s, 1, Len(s) - 1), c) ELSE s

\* the longest prefix of s holding no character of stops: what [^...]+ consumes
RECURSIVE TakeUntil(_, _)
TakeUntil(s, stops) ==
    IF Len(s) = 0 \/ s[1] \in stops THEN <<>>
    ELSE <<s[1]>> \o TakeUntil(Tail(s), stops)

\* the index of the last occurrence of c in s, 0 when there is none
LastIndexOf(s, c) ==
    IF \E i \in 1..Len(s) : s[i] = c
    THEN CHOOSE i \in 1..Len(s) : s[i] = c /\ \A j \in (i+1)..Len(s) : s[j] # c
    ELSE 0

(***************************************************************************)
(* String literals of the source.                                          *)
(***************************************************************************)
S_http == <<"h","t","t","p",":","/","/">>
S_https == <<"h","t","t","p","s",":","/","/">>
S_github == <<"h","t","t","p","s",":","/","/","g","i","t","h","u","b",".","c","o","m","/">>
S_gist == <<"h","t","t","p","s",":","/","/","g","i","s","t",".","g","i","t","h","u","b",".","c","o","m","/">>
S_blob == <<"b","l","o","b","/">>
S_rawhost == <<"h","t","t","p","s",":","/","/","r","a","w",".","g","i","t","h","u","b",
               "u","s","e","r","c","o","n","t","e","n","t",".","c","o","m","/">>
S_gisthost == <<"h","t","t","p","s",":","/","/","g","i","s","t",".","g","i","t","h","u","b",
                "u","s","e","r","c","o","n","t","e","n","t",".","c","o","m","/">>
S_raw == <<"/","r","a","w">>
S_file == <<"#","f","i","l","e","-">>
S_scheme == <<"g","i","t","h","u","b",":","/","/">>
S_manifest == <<"/","m","a","n","i","f","e","s","t",".","j","s","o","n">>
S_yaml == <<".","y","a","m","l">>
S_yml == <<".","y","m","l">>
S_config == <<"c","o","n","f","i","g">>
S_factory == <<".","f","a","c","t","o","r","y",".","y","a","m","l">>
S_bin == <<".","b","i","n">>

S_ESP32 == <<"E","S","P","3","2">>
S_ESP32C3 == <<"E","S","P","3","2","C","3">>
S_ESP32S2 == <<"E","S","P","3","2","S","2">>
S_ESP32S3 == <<"E","S","P","3","2","S","3">>
S_ESP32_C3 == <<"E","S","P","3","2","-","C","3">>
S_ESP32_S2 == <<"E","S","P","3","2","-","S","2">>
S_ESP32_S3 == <<"E","S","P","3","2","-","S","3">>
S_ESP8266 == <<"E","S","P","8","2","6","6">>
S_c3 == <<"c","3">>
S_s2 == <<"s","2">>
S_s3 == <<"s","3">>

(***************************************************************************)
(* normalize_chip_family (cli.py 386-398)                                  *)
(***************************************************************************)
\* the keys of `mapping`
NormalizeKeys ==
    { Lower(S_ESP32), Lower(S_ESP32C3), Lower(S_ESP32_C3), Lower(S_ESP32S2),
      Lower(S_ESP32_S2), Lower(S_ESP32S3), Lower(S_ESP32_S3), Lower(S_ESP8266) }

\* mapping[k] for a key k
NormalizeMapping(k) ==
    CASE k = Lower(S_ESP32) -> S_ESP32
      [] k \in {Lower(S_ESP32C3), Lower(S_ESP32_C3)} -> S_ESP32_C3
      [] k \in {Lower(S_ESP32S2), Lower(S_ESP32_S2)} -> S_ESP32_S2
      [] k \in {Lower(S_ESP32S3), Lower(S_ESP32_S3)} -> S_ESP32_S3
      [] k = Lower(S_ESP8266) -> S_ESP8266

\* a slip: the table is looked up without case folding
normalize_chip_family_nofold(chip_family) ==
    IF chip_family \in NormalizeKeys
    THEN NormalizeMapping(chip_family)
    ELSE Upper(chip_family)

normalize_chip_family(chip_family) ==
    IF Lower(chip_family) \in NormalizeKeys
    THEN NormalizeMapping(Lower(chip_family))
    ELSE Upper(chip_family)

(***************************************************************************)
(* detect_chip_family (cli.py 351-383).  A configuration is a record whose *)
(* fields esp32 and esp8266 are None when the key is absent; an esp32      *)
(* section is a record [board, variant] of optional strings (dict.get      *)
(* yields "" for an absent field).                                         *)
(***************************************************************************)
Get(section, field) == IF section[field] = None THEN <<>> ELSE Val(section[field])

\* a slip: the board is consulted before the variant
detect_chip_family_board_first(config) ==
    IF config.esp32 # None THEN
        LET board_lower == Lower(Get(Val(config.esp32), "board"))
            variant == Upper(Get(Val(config.esp32), "variant"))
        IN  IF Contains(board_lower, S_c3) THEN Some(S_ESP32_C3)
            ELSE IF Contains(board_lower, S_s2) THEN Some(S_ESP32_S2)
            ELSE IF Contains(board_lower, S_s3) THEN Some(S_ESP32_S3)
            ELSE IF variant \in {S_ESP32C3, S_ESP32_C3} THEN Some(S_ESP32_C3)
            ELSE IF variant \in {S_ESP32S2, S_ESP32_S2} THEN Some(S_ESP32_S2)
            ELSE IF variant \in {S_ESP32S3, S_ESP32_S3} THEN Some(S_ESP32_S3)
            ELSE Some(S_ESP32)
    ELSE IF config.esp8266 # None THEN Some(S_ESP8266)
    ELSE None

detect_chip_family(config) ==
    IF config.esp32 # None THEN
        LET esp32_config == Val(config.esp32)
            board == Get(esp32_config, "board")
            variant == Upper(Get(esp32_config, "variant"))
            board_lower == Lower(board)
        IN  IF variant # <<>> /\ variant \in {S_ESP32C3, S_ESP32_C3} THEN Some(S_ESP32_C3)
            ELSE IF variant # <<>> /\ variant \in {S_ESP32S2, S_ESP32_S2} THEN Some(S_ESP32_S2)
            ELSE IF variant # <<>> /\ variant \in {S_ESP32S3, S_ESP32_S3} THEN Some(S_ESP32_S3)
            ELSE IF Contains(board_lower, S_c3) THEN Some(S_ESP32_C3)
            ELSE IF Contains(board_lower, S_s2) THEN Some(S_ESP32_S2)
            ELSE IF Contains(board_lower, S_s3) THEN Some(S_ESP32_S3)
            ELSE Some(S_ESP32)
    ELSE IF config.esp8266 # None THEN Some(S_ESP8266)
    ELSE None

(***************************************************************************)
(* expand_substitutions (cli.py 86-95).  A value is a tagged record: a     *)
(* string [t |-> "str", s |-> chars] or an integer [t |-> "int", n |-> k]. *)
(* The table `substitutions` is the sequence of its (key, value) items in  *)
(* declaration order.                                                      *)
(***************************************************************************)
StrV(s) == [t |-> "str", s |-> s, n |-> 0]
IntV(n) == [t |-> "int", s |-> <<>>, n |-> n]

Digits == <<"0","1","2","3","4","5","6","7","8","9">>

\* str(v) for a value of the table (integers of one digit)
Str(v) == IF v.t = "str" THEN v.s ELSE <<Digits[v.n + 1]>>

\* f"${{{key}}}"
Placeholder(key) == <<"$", "{">> \o key \o <<"}">>

\* one iteration of the for loop: value.replace(f"${{{key}}}", str(sub_value))
ExpandIter(value, item) == Replace(value, Placeholder(item.key), Str(item.val))

\* the for loop from item i on
RECURSIVE ExpandFrom(_, _, _)
ExpandFrom(substitutions, i, value) ==
    IF i > Len(substitutions) THEN value
    ELSE ExpandFrom(substitutions, i + 1, ExpandIter(value, substitutions[i]))

\* a slip: the table is applied a second time to the expanded text
expand_substitutions_two_passes(substitutions, value) ==
    IF value.t # "str" THEN value
    ELSE StrV(ExpandFrom(substitutions, 1, ExpandFrom(substitutions, 1, value.s)))

expand_substitutions(substitutions, value) ==
    IF value.t # "str" THEN value
    ELSE StrV(ExpandFrom(substitutions, 1, value.s))

(***************************************************************************)
(* convert_to_raw_url (cli.py 267-295) and convert_to_esphome_github_url   *)
(* (cli.py 401-413): the two regular expressions, matched from the start   *)
(* of the URL as re.match does.                                            *)
(***************************************************************************)
\* ([^/]+)/ at the start of s: the segment, which must be non-empty and be
\* followed by a slash
Seg(s) == TakeUntil(s, {"/"})
HasSeg(s) == Len(Seg(s)) > 0 /\ Len(s) > Len(Seg(s))
AfterSeg(s) == Drop(s, Len(Seg(s)) + 2)

\* (.+): as much as possible up to a line end, at least one character
DotPlus(s) == TakeUntil(s, {"\n"})

\* r"https://github\.com/([^/]+)/([^/]+)/blob/([^/]+)/(.+)"
MatchGithubBlob(url) ==
    LET r0 == Drop(url, Len(S_github) + 1)
        r1 == AfterSeg(r0)
        r2 == AfterSeg(r1)
        r3 == Drop(r2, Len(S_blob) + 1)
        r4 == AfterSeg(r3)
        ok == /\ StartsWith(url, S_github)
              /\ HasSeg(r0)
              /\ HasSeg(r1)
              /\ StartsWith(r2, S_blob)
              /\ HasSeg(r3)
              /\ Len(DotPlus(r4)) > 0
    IN  IF ok
        THEN [ok |-> TRUE, user |-> Seg(r0), repo |-> Seg(r1),
              branch |-> Seg(r3), path |-> DotPlus(r4)]
        ELSE [ok |-> FALSE, user |-> <<>>, repo |-> <<>>, branch |-> <<>>, path |-> <<>>]

\* r"https://gist\.github\.com/([^/]+)/([^/#]+)(?:#file-(.+))?"
MatchGist(url) ==
    LET r0 == Drop(url, Len(S_gist) + 1)
        r1 == AfterSeg(r0)
        gist_id == TakeUntil(r1, {"/", "#"})
        r2 == Drop(r1, Len(gist_id) + 1)
        frag == IF StartsWith(r2, S_file) THEN DotPlus(Drop(r2, Len(S_file) + 1)) ELSE <<>>
        ok == /\ StartsWith(url, S_gist)
              /\ HasSeg(r0)
              /\ Len(gist_id) > 0
    IN  IF ok
        THEN [ok |-> TRUE, user |-> Seg(r0), gist_id |-> gist_id, file_fragment |-> frag]
        ELSE [ok |-> FALSE, user |-> <<>>, gist_id |-> <<>>, file_fragment |-> <<>>]

\* re.sub(r"\.([^.]+)$", lambda m: "." + m.group(1), filename)
FixExtension(filename) ==
    LET k == LastIndexOf(filename, ".")
    IN  IF k > 0 /\ k < Len(filename)
        THEN SubSeq(filename, 1, k - 1) \o <<".">> \o Drop(filename, k + 1)
        ELSE filename

convert_to_raw_url(url) ==
    LET github_blob == MatchGithubBlob(url)
        gist_match == MatchGist(url)
    IN  IF github_blob.ok THEN
            S_rawhost \o github_blob.user \o <<"/">> \o github_blob.repo \o <<"/">>
                \o github_blob.branch \o <<"/">> \o github_blob.path
        ELSE IF gist_match.ok THEN
            IF gist_match.file_fragment # <<>> THEN
                S_gisthost \o gist_match.user \o <<"/">> \o gist_match.gist_id \o S_raw
                    \o <<"/">> \o FixExtension(Replace(gist_match.file_fragment, <<"-">>, <<".">>))
            ELSE S_gisthost \o gist_match.user \o <<"/">> \o gist_match.gist_id \o S_raw
        ELSE url

\* a slip: the blob segment is kept in the github:// URL
convert_to_esphome_github_url_keep_blob(url) ==
    LET github_blob == MatchGithubBlob(url)
    IN  IF github_blob.ok
        THEN Some(S_scheme \o github_blob.user \o <<"/">> \o github_blob.repo \o <<"/">>
                  \o S_blob \o github_blob.branch \o <<"/">> \o github_blob.path)
        ELSE None

convert_to_esphome_github_url(url) ==
    LET github_blob == MatchGithubBlob(url)
    IN  IF github_blob.ok
        THEN Some(S_scheme \o github_blob.user \o <<"/">> \o github_blob.repo \o <<"/">>
                  \o github_blob.path \o <<"@">> \o github_blob.branch)
        ELSE None

(***************************************************************************)
(* Paths (pathlib): a path is a record [parent, name] of strings.          *)
(***************************************************************************)
\* Path.stem: the name without its last suffix
Stem(name) ==
    LET k == LastIndexOf(name, ".")
    IN  IF 1 < k /\ k < Len(name) THEN SubSeq(name, 1, k - 1) ELSE name

(***************************************************************************)
(* create_factory_yaml (cli.py 416-471).  The generated text is a sequence *)
(* of lines; a line is a record [text, arg]: the fixed text of the         *)
(* template line and the value formatted into it (<<>> when the line has   *)
(* no field).                                                              *)
(***************************************************************************)
Ln(text) == [text |-> text, arg |-> <<>>]
LnA(text, arg) == [text |-> text, arg |-> arg]

\* factory_content as first built (cli.py 432-437)
FactoryHead(original_filename) ==
    << Ln("# Factory firmware - generated by ewt-gen"),
       LnA("# Users should import {} directly, not this file.", original_filename),
       Ln(""),
       Ln("packages:"),
       LnA("  original: !include {}", original_filename) >>

\* the block added when a version is given (cli.py 443-459)
FactoryOta(version, manifest_url) ==
    << Ln(""),
       Ln("esphome:"),
       Ln("  project:"),
       LnA("    version: \"{}\"", version),
       Ln(""),
       Ln("ota:"),
       Ln("  - platform: http_request"),
       Ln("    id: ota_http_request"),
       Ln(""),
       Ln("update:"),
       Ln("  - platform: http_request"),
       Ln("    id: update_http_request"),
       Ln("    name: Firmware"),
       LnA("    source: {}", manifest_url),
       Ln(""),
       Ln("http_request:") >>

\* the block added for a package import URL (cli.py 462-465)
FactoryImport(package_import_url) ==
    << Ln(""),
       Ln("dashboard_import:"),
       LnA("  package_import_url: {}", package_import_url) >>

\* factory_content.lstrip() on lines: leading blank lines go
RECURSIVE LStripLines(_)
LStripLines(lines) ==
    IF Len(lines) > 0 /\ lines[1] = Ln("") THEN LStripLines(Tail(lines)) ELSE lines

\* a slip: the publish URL is used as given, its trailing slash kept
create_factory_yaml_no_rstrip(yaml_file, publish_url, package_import_url, version) ==
    LET manifest_url == publish_url \o S_manifest
        factory_content ==
            FactoryHead(yaml_file.name)
            \o (IF Truthy(version) THEN FactoryOta(Val(version), manifest_url) ELSE <<>>)
            \o (IF Truthy(package_import_url)
                THEN FactoryImport(Val(package_import_url)) ELSE <<>>)
    IN  [path |-> [parent |-> yaml_file.parent, name |-> Stem(yaml_file.name) \o S_factory],
         content |-> LStripLines(factory_content)]

\* the factory file written: its path and its content
create_factory_yaml(yaml_file, publish_url, package_import_url, version) ==
    LET manifest_url == RStrip(publish_url, "/") \o S_manifest
        factory_content ==
            FactoryHead(yaml_file.name)
            \o (IF Truthy(version) THEN FactoryOta(Val(version), manifest_url) ELSE <<>>)
            \o (IF Truthy(package_import_url)
                THEN FactoryImport(Val(package_import_url)) ELSE <<>>)
    IN  [path |-> [parent |-> yaml_file.parent, name |-> Stem(yaml_file.name) \o S_factory],
         content |-> LStripLines(factory_content)]

(***************************************************************************)
(* generate_manifest (generator.py 84-101).  The manifest is the function  *)
(* from its keys to their values.                                          *)
(***************************************************************************)
ManifestBase(name, chip_family) ==
    [name |-> name,
     builds |-> << [chipFamily |-> chip_family,
                    parts |-> << [path |-> "firmware.bin", offset |-> 0] >>] >>]

\* a slip: home_assistant_domain is set whether or not a version is given
generate_manifest_always_domain(name, chip_family, version) ==
    IF Truthy(version)
    THEN ManifestBase(name, chip_family) @@
         [version |-> Val(version), home_assistant_domain |-> "esphome"]
    ELSE ManifestBase(name, chip_family) @@ [home_assistant_domain |-> "esphome"]

generate_manifest(name, chip_family, version) ==
    IF Truthy(version)
    THEN ManifestBase(name, chip_family) @@
         [version |-> Val(version), home_assistant_domain |-> "esphome"]
    ELSE ManifestBase(name, chip_family)

(***************************************************************************)
(* resolve_yaml_source and download_yaml (cli.py 219-264).                 *)
(***************************************************************************)
\* source.startswith(("http://", "https://"))
IsUrl(source) == StartsWith(source, S_http) \/ StartsWith(source, S_https)

\* Path(source): the text before the last slash and the text after it
PathOf(source) ==
    LET k == LastIndexOf(source, "/")
    IN  [parent |-> SubSeq(source, 1, k - 1), name |-> Drop(source, k + 1)]

\* urlparse(url).path: what follows the host, up to the query or fragment
UrlPath(url) ==
    LET rest == IF StartsWith(url, S_https) THEN Drop(url, Len(S_https) + 1)
                ELSE Drop(url, Len(S_http) + 1)
        afterHost == Drop(rest, Len(TakeUntil(rest, {"/", "?", "#"})) + 1)
    IN  TakeUntil(afterHost, {"?", "#"})

\* the file name download_yaml saves the content under (cli.py 254-257)
DownloadName(url) ==
    LET filename == PathOf(RStrip(UrlPath(url), "/")).name
    IN  IF EndsWith(filename, S_yaml) \/ EndsWith(filename, S_yml)
        THEN filename ELSE S_config \o S_yaml

\* tempfile.mkdtemp(prefix="ewt-")
S_tempdir == <<"/","t","m","p","/","e","w","t","-">>

(***************************************************************************)
(* compile_with_esphome (cli.py 298-326).  `which` is the record           *)
(* [esphome, uvx] of what shutil.which finds.                              *)
(***************************************************************************)
\* a slip: uvx is preferred to the locally installed esphome
CompilerCommand_uvx_first(pre_release, which) ==
    IF pre_release THEN
        IF ~which.uvx THEN "uvx not found" ELSE "uvx --prerelease allow --refresh esphome"
    ELSE IF which.uvx THEN "uvx esphome"
    ELSE IF which.esphome THEN "esphome"
    ELSE "ESPHome not found"

\* the command chosen (cli.py 303-320), or the message of the error raised
CompilerCommand(pre_release, which) ==
    IF pre_release THEN
        IF ~which.uvx THEN "uvx not found" ELSE "uvx --prerelease allow --refresh esphome"
    ELSE IF which.esphome THEN "esphome"
    ELSE IF which.uvx THEN "uvx esphome"
    ELSE "ESPHome not found"

CompilerMissing(cmd) == cmd \in {"uvx not found", "ESPHome not found"}

(***************************************************************************)
(* find_firmware (cli.py 329-348).  The file system is the record          *)
(* [sibling_bin, build_dir, subdirs]: what is at <stem>.bin beside the     *)
(* configuration and at .esphome/build/<project>/.pioenvs ("absent",       *)
(* "file" or "dir"), and the entries [name, is_dir, fw] of the latter,     *)
(* fw being what is at <entry>/firmware.bin.                               *)
(***************************************************************************)
S_pioenvs(project_name) ==
    <<"/",".","e","s","p","h","o","m","e","/","b","u","i","l","d","/">> \o project_name
        \o <<"/",".","p","i","o","e","n","v","s","/">>
S_firmware_bin == <<"f","i","r","m","w","a","r","e",".","b","i","n">>

\* Path.exists(): true of a file and of a directory
Exists(kind) == kind # "absent"

\* bin_file (cli.py 334)
SiblingBin(yaml_file) == [parent |-> yaml_file.parent, name |-> Stem(yaml_file.name) \o S_bin]

\* fw (cli.py 344) for the entry named subdir
BuildFirmware(yaml_file, project_name, subdir) ==
    [parent |-> yaml_file.parent \o S_pioenvs(project_name) \o subdir, name |-> S_firmware_bin]

Returns(path) == [raised |-> FALSE, path |-> path]
Raises == [raised |-> TRUE, path |-> None]

\* the outcomes of find_firmware: the path returned (None for not found), or
\* the exception of iterdir on something that is no directory; iterdir yields
\* the entries in any order
find_firmware(fs, yaml_file, project_name) ==
    IF Exists(fs.sibling_bin) THEN { Returns(Some(SiblingBin(yaml_file))) }
    ELSE IF Exists(fs.build_dir) THEN
        IF fs.build_dir # "dir" THEN { Raises }
        ELSE LET hits == { d \in fs.subdirs : d.is_dir /\ Exists(d.fw) }
             IN  IF hits = {} THEN { Returns(None) }
                 ELSE { Returns(Some(BuildFirmware(yaml_file, project_name, d.name))) :
                          d \in hits }
    ELSE { Returns(None) }

\* an entry of the build directory
Env(name, is_dir, fw) == [name |-> name, is_dir |-> is_dir, fw |-> fw]
\* the name of the i-th entry
EnvName(i) == <<"e","n","v">> \o <<Digits[i + 1]>>
S_env1 == EnvName(1)
S_env2 == EnvName(2)

\* what is at a path find_firmware returned
EntryKind(f, yaml, project, path) ==
    IF path = SiblingBin(yaml) THEN f.sibling_bin
    ELSE IF \E d \in f.subdirs : path = BuildFirmware(yaml, project, d.name)
    THEN (CHOOSE d \in f.subdirs : path = BuildFirmware(yaml, project, d.name)).fw
    ELSE "absent"

(***************************************************************************)
(* main (cli.py 80-197), the parts that compute its local variables.       *)
(***************************************************************************)
\* section.get(field, "") for a section that may itself be absent
GetS(section, field) == IF section = None THEN <<>> ELSE Get(Val(section), field)

\* expand_substitutions on a string field of the configuration
Expand(config, s) == expand_substitutions(config.substitutions, StrV(s)).s

\* project_name (cli.py 98-99)
ProjectName(config, yaml_file) ==
    LET name == Expand(config, GetS(config.esphome, "name"))
    IN  IF name # <<>> THEN name ELSE Stem(yaml_file.name)

\* title (cli.py 102-103)
Title(title, config, project_name) ==
    IF Truthy(title) THEN Val(title)
    ELSE LET friendly == Expand(config, GetS(config.esphome, "friendly_name"))
         IN  IF friendly # <<>> THEN friendly ELSE project_name

\* version (cli.py 106-111)
Version(fw_version, config) ==
    IF fw_version # None THEN fw_version
    ELSE LET version == Expand(config, GetS(config.esphome, "project_version"))
         IN  IF version = <<>> THEN None ELSE Some(version)

\* package_import_url (cli.py 117-119)
PackageImportUrl(yaml_source) ==
    IF IsUrl(yaml_source) THEN convert_to_esphome_github_url(yaml_source) ELSE None

\* whether the warning is shown (cli.py 122)
WarnsNoVersion(version) == version = None

\* a slip: the exit status is taken for a failure only when it is above 1
ReturnCodeFails_above_one(returncode) == returncode > 1

\* cli.py 323
ReturnCodeFails(returncode) == returncode # 0

\* chip_family before normalization (cli.py 159-160)
ChipFamily(chip_family, config) ==
    IF chip_family = None THEN detect_chip_family(config) ELSE chip_family

\* generate_site (generator.py 12-81): the files written to the output
\* directory and the manifest serialized into manifest.json
generate_site(yaml_file, chip_family, title, original_yaml_file, version) ==
    [files |-> {yaml_file.name, S_firmware_bin,
                <<"m","a","n","i","f","e","s","t",".","j","s","o","n">>,
                <<"i","n","d","e","x",".","h","t","m","l">>}
               \cup (IF original_yaml_file # None THEN {Val(original_yaml_file).name} ELSE {}),
     manifest |-> generate_manifest(title, chip_family, version)]

(***************************************************************************)
(* State.                                                                  *)
(*   fn, input, output, fpc: one call of a helper function on its own      *)
(*   (specification SpecFn): the function called, its arguments, its       *)
(*   result and the position of the call ("call" before, "ret" after).     *)
(*                                                                         *)
(*   One run of `main` (specification Spec):                               *)
(*   args        the command line: yaml_source, skip_compile, firmware,    *)
(*               chip_family, title, pre_release, publish_url, fw_version  *)
(*   pc          the statement of main that runs next; "done" after the    *)
(*               last one, "error" once an exception has left main         *)
(*   yaml_file, temp_dir, config, project_name, title, version,            *)
(*   package_import_url, compile_yaml_file, firmware, chip_family          *)
(*               the local variables of main                               *)
(*   scratch     the scratch directory on disk: "absent", "exists" or      *)
(*               "removed"                                                 *)
(*   factory     the overlay file written by create_factory_yaml           *)
(*   which       what shutil.which found when the compiler was looked up   *)
(*   cmds        the subprocesses run                                      *)
(*   fs          the files find_firmware saw                               *)
(*   site        the output directory written by generate_site             *)
(*   events      what the run did and showed, in order                     *)
(*   err         the exception that ended the run                          *)
(***************************************************************************)
VARIABLES fn, input, output, fpc,
          args, pc, yaml_file, temp_dir, scratch, config, project_name, title, version,
          package_import_url, compile_yaml_file, factory, which, cmds, fs, firmware,
          chip_family, site, events, err

fnvars == <<fn, input, output, fpc>>

mainvars == <<args, pc, yaml_file, temp_dir, scratch, config, project_name, title, version,
              package_import_url, compile_yaml_file, factory, which, cmds, fs, firmware,
              chip_family, site, events, err>>

vars == <<fnvars, mainvars>>

(***************************************************************************)
(* Inputs of the helper functions.                                         *)
(***************************************************************************)
S_a == <<"a">>
S_b == <<"b">>
S_c == <<"c">>
S_x == <<"x">>
S_version == <<"1",".","2",".","3">>
S_esp32h2 == <<"e","s","p","3","2","h","2">>
S_publish == <<"h","t","t","p","s",":","/","/","e","x","a","m","p","l","e",".","c","o","m","/","f","w">>
S_kitchen_yaml == <<"k","i","t","c","h","e","n",".","y","a","m","l">>
S_dev_yml == <<"d","e","v",".","v","2",".","y","m","l">>
S_import == S_scheme \o <<"o","/","r","/","f",".","y","a","m","l","@","m">>

\* s with a hyphen inserted after its first k characters
InsertHyphen(s, k) == SubSeq(s, 1, k) \o <<"-">> \o Drop(s, k + 1)

\* s with its first character upper-cased
Capitalize(s) == IF Len(s) = 0 THEN s ELSE <<UpperChar(s[1])>> \o Tail(s)

\* the hyphen-free lower-case spellings of the five families, and two others
NormBases ==
    { Lower(S_ESP32), Lower(S_ESP32C3), Lower(S_ESP32S2), Lower(S_ESP32S3),
      Lower(S_ESP8266), S_esp32h2, S_x }

\* each base as it is, or with one hyphen anywhere; in lower, upper or mixed case
NormInputs ==
    LET hyph == NormBases \cup { InsertHyphen(b, k) : <<b, k>> \in
                    { <<b, k>> \in NormBases \X (0..7) : k <= Len(b) } }
    IN  hyph \cup { Upper(h) : h \in hyph } \cup { Capitalize(h) : h \in hyph }

Boards ==
    { None,
      Some(<<>>),
      Some(<<"e","s","p","3","2","d","e","v">>),
      Some(<<"e","s","p","3","2","-","c","3","-","d","e","v","k","i","t","m","-","1">>),
      Some(<<"l","o","l","i","n","_","S","2","_","m","i","n","i">>),
      Some(<<"E","S","P","3","2","-","S","3","-","B","O","X">>),
      Some(<<"x","-","s","3","-","s","2","-","c","3">>),
      Some(<<"n","o","d","e","m","c","u","-","3","2","s">>) }

Variants ==
    { None,
      Some(<<>>),
      Some(Lower(S_ESP32C3)), Some(S_ESP32_C3),
      Some(S_ESP32S2), Some(Capitalize(Lower(S_ESP32_S2))),
      Some(Lower(S_ESP32S3)), Some(Lower(S_ESP32_S3)),
      Some(S_ESP32), Some(<<"e","s","p","3","2","c","6">>), Some(S_c3) }

DetectInputs ==
    { [esp32 |-> e, esp8266 |-> x] :
        e \in {None} \cup { Some([board |-> b, variant |-> v]) : b \in Boards, v \in Variants },
        x \in {None, Some("section")} }

SubKeys == { S_a, S_b, S_c }

SubValues ==
    { StrV(S_x), StrV(<<>>), StrV(Placeholder(S_a)), StrV(Placeholder(S_b)),
      StrV(Placeholder(<<"z">>)), StrV(<<"$">>), IntV(7) }

\* the tables: up to MaxTable items of distinct keys (a dict holds a key once)
RECURSIVE Tables(_)
Tables(n) ==
    IF n = 0 THEN { <<>> }
    ELSE Tables(n - 1) \cup
         { Append(t, [key |-> k, val |-> v]) :
             <<t, k, v>> \in { <<t, k, v>> \in Tables(n - 1) \X SubKeys \X SubValues :
                                 /\ Len(t) = n - 1
                                 /\ \A i \in 1..Len(t) : t[i].key # k } }

ExpandValues ==
    { StrV(Placeholder(S_a)), StrV(Placeholder(S_b)), StrV(Placeholder(<<"z">>)),
      StrV(S_x \o Placeholder(S_a) \o <<"-">> \o Placeholder(S_b)),
      StrV(Placeholder(S_a) \o Placeholder(S_a)),
      StrV(Placeholder(S_a) \o <<"{","b","}">>),
      StrV(Placeholder(<<"z">>) \o Placeholder(S_a)),
      StrV(<<>>), IntV(5) }

ExpandInputs == [substitutions : Tables(MaxTable), value : ExpandValues]

RECURSIVE Slashes(_)
Slashes(n) == IF n = 0 THEN <<>> ELSE <<"/">> \o Slashes(n - 1)

PublishUrls ==
    { base \o Slashes(n) : base \in { S_publish, S_https \o S_x, <<>> }, n \in 0..MaxSlashes }

YamlFiles ==
    { [parent |-> <<"/","w">>, name |-> S_kitchen_yaml],
      [parent |-> <<"/","t","m","p","/","e","w","t","-">>, name |-> S_dev_yml],
      [parent |-> <<"/","w">>, name |-> S_config \o S_yaml] }

Versions == { None, Some(<<>>), Some(S_version) }

FactoryInputs ==
    [yaml_file : YamlFiles, publish_url : PublishUrls,
     package_import_url : { None, Some(<<>>), Some(S_import) }, version : Versions]

ManifestInputs ==
    [name : { Some(S_x), Some(<<>>), None },
     chip_family : { S_ESP32, S_ESP32_C3, S_ESP32_S2, S_ESP32_S3, S_ESP8266, Upper(S_esp32h2) },
     version : Versions]

Kinds == { "absent", "file", "dir" }

\* the contents of a build directory of up to n entries: each name is absent,
\* a file, or a directory with whatever is at its firmware.bin
RECURSIVE SubdirSets(_)
SubdirSets(n) ==
    IF n = 0 THEN { {} }
    ELSE LET rest == SubdirSets(n - 1)
         IN  rest
             \cup { r \cup { Env(EnvName(n), FALSE, "absent") } : r \in rest }
             \cup { r \cup { Env(EnvName(n), TRUE, k) } : r \in rest, k \in Kinds }

\* every file system: only a directory has entries
FsAll ==
    { [sibling_bin |-> sb, build_dir |-> bd, subdirs |-> sd] :
        sb \in Kinds, bd \in Kinds, sd \in SubdirSets(MaxEnvs) } \
    { f \in [sibling_bin : Kinds, build_dir : Kinds, subdirs : SubdirSets(MaxEnvs)] :
        f.build_dir # "dir" /\ f.subdirs # {} }

FindInputs ==
    [fs : FsAll, yaml_file : YamlFiles,
     project_name : { <<"k","i","t","c","h","e","n">>, <<"p","l","u","g">> }]

(***************************************************************************)
(* The state of main before it runs.                                       *)
(***************************************************************************)
MainLocals ==
    /\ pc = "resolve"
    /\ yaml_file = None
    /\ temp_dir = None
    /\ scratch = "absent"
    /\ config = None
    /\ project_name = <<>>
    /\ title = <<>>
    /\ version = None
    /\ package_import_url = None
    /\ compile_yaml_file = None
    /\ factory = None
    /\ which = None
    /\ cmds = <<>>
    /\ fs = None
    /\ firmware = None
    /\ chip_family = None
    /\ site = None
    /\ events = <<>>
    /\ err = None

\* no run of main: SpecFn calls the helper functions on their own
MainIdle == args = None /\ MainLocals

(***************************************************************************)
(* SpecFn: one call of one helper function.                                *)
(***************************************************************************)
FnInit ==
    /\ fn \in { "normalize_chip_family", "detect_chip_family", "expand_substitutions",
                "create_factory_yaml", "generate_manifest", "find_firmware" }
    /\ input \in CASE fn = "normalize_chip_family" -> NormInputs
                   [] fn = "detect_chip_family" -> DetectInputs
                   [] fn = "expand_substitutions" -> ExpandInputs
                   [] fn = "create_factory_yaml" -> FactoryInputs
                   [] fn = "generate_manifest" -> ManifestInputs
                   [] fn = "find_firmware" -> FindInputs
    /\ output = None
    /\ fpc = "call"
    /\ MainIdle

NormalizeCall ==
    /\ fn = "normalize_chip_family" /\ fpc = "call"
    /\ output' = normalize_chip_family(input)
    /\ fpc' = "ret"
    /\ UNCHANGED <<fn, input, mainvars>>

DetectCall ==
    /\ fn = "detect_chip_family" /\ fpc = "call"
    /\ output' = detect_chip_family(input)
    /\ fpc' = "ret"
    /\ UNCHANGED <<fn, input, mainvars>>

ExpandCall ==
    /\ fn = "expand_substitutions" /\ fpc = "call"
    /\ output' = expand_substitutions(input.substitutions, input.value)
    /\ fpc' = "ret"
    /\ UNCHANGED <<fn, input, mainvars>>

FactoryCall ==
    /\ fn = "create_factory_yaml" /\ fpc = "call"
    /\ output' = create_factory_yaml(input.yaml_file, input.publish_url,
                                     input.package_import_url, input.version)
    /\ fpc' = "ret"
    /\ UNCHANGED <<fn, input, mainvars>>

ManifestCall ==
    /\ fn = "generate_manifest" /\ fpc = "call"
    /\ output' = generate_manifest(input.name, input.chip_family, input.version)
    /\ fpc' = "ret"
    /\ UNCHANGED <<fn, input, mainvars>>

\* one outcome of find_firmware
FindCall ==
    /\ fn = "find_firmware" /\ fpc = "call"
    /\ \E found \in find_firmware(input.fs, input.yaml_file, input.project_name) :
         output' = found
    /\ fpc' = "ret"
    /\ UNCHANGED <<fn, input, mainvars>>

FnNext ==
    \/ NormalizeCall
    \/ DetectCall
    \/ ExpandCall
    \/ FactoryCall
    \/ ManifestCall
    \/ FindCall

SpecFn == FnInit /\ [][FnNext]_vars

(***************************************************************************)
(* Inputs of main.                                                         *)
(***************************************************************************)
S_local == <<"/","w","/">> \o S_kitchen_yaml
S_blob_url == S_github \o <<"o","/","r","/">> \o S_blob
                  \o <<"m","/","d","/","f",".","y","a","m","l">>
S_gist_url == S_gist \o <<"u","/","g","1">> \o S_file \o <<"d","e","v","-","y","a","m","l">>
S_other_url == S_https \o <<"x","/","c">>
S_http_blob_url == S_http \o <<"g","i","t","h","u","b",".","c","o","m","/","o","/","r","/">>
                       \o S_blob \o <<"m","/","f",".","y","m","l">>

YamlSources == { S_local, S_blob_url, S_gist_url, S_other_url, S_http_blob_url }

Args ==
    [yaml_source : YamlSources,
     skip_compile : BOOLEAN,
     firmware : { None, Some([parent |-> <<"/","w">>, name |-> <<"f","w",".","b","i","n">>]) },
     chip_family : { None, Some(S_ESP32_C3) },
     title : { None },
     pre_release : BOOLEAN,
     publish_url : { None, Some(<<>>) } \cup { Some(S_publish \o Slashes(n)) : n \in 0..MaxSlashes },
     fw_version : Versions]

\* the configuration documents a source may hold
Section(name, friendly_name, project_version) ==
    Some([name |-> name, friendly_name |-> friendly_name, project_version |-> project_version])

Configs ==
    { \* scenario A: an ESP32 board holding s3, name and version by substitution
      [substitutions |-> << [key |-> <<"n">>, val |-> StrV(<<"k","i","t","c","h","e","n">>)],
                            [key |-> <<"v">>, val |-> StrV(S_version)] >>,
       esphome |-> Section(Some(Placeholder(<<"n">>)), Some(<<"K">>), Some(Placeholder(<<"v">>))),
       esp32 |-> Some([board |-> Some(<<"e","s","p","3","2","-","s","3","-","b","o","x">>),
                       variant |-> None]),
       esp8266 |-> None],
      \* no version, an ESP8266
      [substitutions |-> <<>>,
       esphome |-> Section(Some(<<"p","l","u","g">>), None, None),
       esp32 |-> None,
       esp8266 |-> Some("section")],
      \* an empty version, no platform section
      [substitutions |-> <<>>,
       esphome |-> Section(None, None, Some(<<>>)),
       esp32 |-> None,
       esp8266 |-> None],
      \* no esphome section at all, an ESP32 by variant
      [substitutions |-> <<>>,
       esphome |-> None,
       esp32 |-> Some([board |-> None, variant |-> Some(Lower(S_ESP32C3))]),
       esp8266 |-> None] }

\* the file systems find_firmware sees in a run
FsStates ==
    { [sibling_bin |-> "file", build_dir |-> "dir", subdirs |-> { Env(S_env1, TRUE, "file") }],
      [sibling_bin |-> "absent", build_dir |-> "dir",
       subdirs |-> { Env(S_env1, TRUE, "file"), Env(S_env2, TRUE, "file"),
                     Env(<<"l","o","g">>, FALSE, "absent") }],
      [sibling_bin |-> "absent", build_dir |-> "dir",
       subdirs |-> { Env(S_env1, TRUE, "absent") }],
      [sibling_bin |-> "absent", build_dir |-> "absent", subdirs |-> {}],
      [sibling_bin |-> "dir", build_dir |-> "absent", subdirs |-> {}],
      [sibling_bin |-> "absent", build_dir |-> "file", subdirs |-> {}] }

(***************************************************************************)
(* Spec: one run of main.                                                  *)
(***************************************************************************)
Init ==
    /\ args \in Args
    /\ MainLocals
    /\ fn = "none" /\ input = None /\ output = None /\ fpc = "idle"

\* raise click.ClickException(...) or any other exception: the run ends
Raise(kind, code) ==
    /\ err' = Some([kind |-> kind, code |-> code])
    /\ pc' = "error"

\* cli.py 80, 226-227, 236-264: the source is a URL
ResolveUrl ==
    /\ pc = "resolve"
    /\ IsUrl(args.yaml_source)
    /\ \E ok \in BOOLEAN :
         LET url == convert_to_raw_url(args.yaml_source) IN
         IF ok
         THEN /\ yaml_file' = Some([parent |-> S_tempdir, name |-> DownloadName(url)])
              /\ temp_dir' = Some(S_tempdir)
              /\ scratch' = "exists"
              /\ events' = events \o <<"download", "mkdtemp">>
              /\ pc' = "load"
              /\ UNCHANGED err
         ELSE /\ Raise("DownloadError", 0)
              /\ events' = events \o <<"download", "error">>
              /\ UNCHANGED <<yaml_file, temp_dir, scratch>>
    /\ UNCHANGED <<args, config, project_name, title, version, package_import_url,
                   compile_yaml_file, factory, which, cmds, fs, firmware, chip_family, site>>
    /\ UNCHANGED fnvars

\* cli.py 80, 229-233: the source is a local path
ResolveLocal ==
    /\ pc = "resolve"
    /\ ~IsUrl(args.yaml_source)
    /\ \E exists \in BOOLEAN :
         IF exists
         THEN /\ yaml_file' = Some(PathOf(args.yaml_source))
              /\ pc' = "load"
              /\ UNCHANGED <<err, events>>
         ELSE /\ Raise("NotFoundError", 0)
              /\ events' = Append(events, "error")
              /\ UNCHANGED yaml_file
    /\ UNCHANGED <<args, temp_dir, scratch, config, project_name, title, version,
                   package_import_url, compile_yaml_file, factory, which, cmds, fs, firmware,
                   chip_family, site>>
    /\ UNCHANGED fnvars

\* cli.py 83-111: the document is parsed and the local variables project_name,
\* title and version are computed
Load ==
    /\ pc = "load"
    /\ \/ \E c \in Configs :
            /\ config' = Some(c)
            /\ project_name' = ProjectName(c, Val(yaml_file))
            /\ title' = Title(args.title, c, ProjectName(c, Val(yaml_file)))
            /\ version' = Version(args.fw_version, c)
            /\ pc' = "overlay"
            /\ UNCHANGED <<err, events>>
       \/ /\ Raise("ParseError", 0)
          /\ events' = Append(events, "error")
          /\ UNCHANGED <<config, project_name, title, version>>
    /\ UNCHANGED <<args, yaml_file, temp_dir, scratch, package_import_url, compile_yaml_file,
                   factory, which, cmds, fs, firmware, chip_family, site>>
    /\ UNCHANGED fnvars

\* cli.py 114-139: the overlay is synthesized when a publish URL is given
Overlay ==
    /\ pc = "overlay"
    /\ IF Truthy(args.publish_url)
       THEN LET import == PackageImportUrl(args.yaml_source)
                written == create_factory_yaml(Val(yaml_file), Val(args.publish_url),
                                               import, version)
            IN  /\ package_import_url' = import
                /\ factory' = Some(written)
                /\ compile_yaml_file' = Some(written.path)
                /\ events' = events
                     \o (IF WarnsNoVersion(version) THEN <<"warn_no_version">> ELSE <<>>)
                     \o <<"create_factory_yaml">>
                     \o (IF Truthy(version) THEN <<"echo_ota">> ELSE <<"echo_dashboard_import">>)
       ELSE /\ compile_yaml_file' = yaml_file
            /\ UNCHANGED <<package_import_url, factory, events>>
    /\ pc' = "compile"
    /\ UNCHANGED <<args, yaml_file, temp_dir, scratch, config, project_name, title, version,
                   which, cmds, fs, firmware, chip_family, site, err>>
    /\ UNCHANGED fnvars

\* cli.py 142: no compilation is asked for
CompileSkipped ==
    /\ pc = "compile"
    /\ ~(~args.skip_compile /\ args.firmware = None)
    /\ pc' = "find"
    /\ UNCHANGED <<args, yaml_file, temp_dir, scratch, config, project_name, title, version,
                   package_import_url, compile_yaml_file, factory, which, cmds, fs, firmware,
                   chip_family, site, events, err>>
    /\ UNCHANGED fnvars

\* cli.py 142-144, 298-326: the compiler is looked up and run
Compile ==
    /\ pc = "compile"
    /\ ~args.skip_compile /\ args.firmware = None
    /\ \E w \in [esphome : BOOLEAN, uvx : BOOLEAN], returncode \in 0..MaxExitCode :
         LET cmd == CompilerCommand(args.pre_release, w) IN
         /\ which' = Some(w)
         /\ IF CompilerMissing(cmd)
            THEN /\ Raise("CompileError", 0)
                 /\ events' = events \o <<"echo_compiling", "error">>
                 /\ UNCHANGED cmds
            ELSE /\ cmds' = Append(cmds, [cmd |-> cmd,
                                          file |-> Val(compile_yaml_file),
                                          cwd |-> Val(compile_yaml_file).parent,
                                          returncode |-> returncode])
                 /\ IF ReturnCodeFails(returncode)
                    THEN /\ Raise("CompileError", returncode)
                         /\ events' = events \o <<"echo_compiling", "subprocess", "error">>
                    ELSE /\ pc' = "find"
                         /\ events' = events \o <<"echo_compiling", "subprocess">>
                         /\ UNCHANGED err
    /\ UNCHANGED <<args, yaml_file, temp_dir, scratch, config, project_name, title, version,
                   package_import_url, compile_yaml_file, factory, fs, firmware, chip_family,
                   site>>
    /\ UNCHANGED fnvars

\* cli.py 147-156: the firmware binary is the one given or the one found
FindFirmware ==
    /\ pc = "find"
    /\ IF args.firmware # None
       THEN /\ firmware' = args.firmware
            /\ pc' = "chip"
            /\ UNCHANGED <<fs, err, events>>
       ELSE \E f \in FsStates :
              /\ fs' = Some(f)
              /\ \E found \in find_firmware(f, Val(yaml_file), project_name) :
                   IF found.raised
                   THEN /\ Raise("NotADirectoryError", 0)
                        /\ events' = Append(events, "error")
                        /\ UNCHANGED firmware
                   ELSE /\ firmware' = found.path
                        /\ IF found.path = None
                           THEN /\ Raise("NotFoundError", 0)
                                /\ events' = Append(events, "error")
                           ELSE /\ pc' = "chip"
                                /\ UNCHANGED <<err, events>>
    /\ UNCHANGED <<args, yaml_file, temp_dir, scratch, config, project_name, title, version,
                   package_import_url, compile_yaml_file, factory, which, cmds, chip_family,
                   site>>
    /\ UNCHANGED fnvars

\* cli.py 159-168: the chip family is the one given or the one detected
Chip ==
    /\ pc = "chip"
    /\ LET family == ChipFamily(args.chip_family, Val(config)) IN
       IF family = None
       THEN /\ Raise("DetectionError", 0)
            /\ events' = Append(events, "error")
            /\ UNCHANGED chip_family
       ELSE /\ chip_family' = Some(normalize_chip_family(Val(family)))
            /\ pc' = "emit"
            /\ UNCHANGED <<err, events>>
    /\ UNCHANGED <<args, yaml_file, temp_dir, scratch, config, project_name, title, version,
                   package_import_url, compile_yaml_file, factory, which, cmds, fs, firmware,
                   site>>
    /\ UNCHANGED fnvars

\* shutil.copy(firmware_file, ...) (generator.py 30) copies a regular file only
FirmwareIsFile ==
    IF args.firmware # None THEN TRUE
    ELSE EntryKind(Val(fs), Val(yaml_file), project_name, Val(firmware)) = "file"

\* cli.py 171-190, generator.py 12-81: the site is written, or writing it fails
Emit ==
    /\ pc = "emit"
    /\ \/ /\ FirmwareIsFile
          /\ site' = Some(generate_site(Val(compile_yaml_file), Val(chip_family), title,
                                        IF Truthy(args.publish_url) THEN yaml_file ELSE None,
                                        version))
          /\ events' = Append(events, "generate_site")
          /\ pc' = "cleanup"
          /\ UNCHANGED err
       \/ /\ Raise("OSError", 0)
          /\ events' = events \o <<"generate_site", "error">>
          /\ UNCHANGED site
    /\ UNCHANGED <<args, yaml_file, temp_dir, scratch, config, project_name, title, version,
                   package_import_url, compile_yaml_file, factory, which, cmds, fs, firmware,
                   chip_family>>
    /\ UNCHANGED fnvars

\* cli.py 193-197: the scratch directory is removed
Cleanup ==
    /\ pc = "cleanup"
    /\ scratch' = IF temp_dir # None THEN "removed" ELSE scratch
    /\ events' = IF temp_dir # None THEN Append(events, "rmtree") ELSE events
    /\ pc' = "done"
    /\ UNCHANGED <<args, yaml_file, temp_dir, config, project_name, title, version,
                   package_import_url, compile_yaml_file, factory, which, cmds, fs, firmware,
                   chip_family, site, err>>
    /\ UNCHANGED fnvars

Next ==
    \/ ResolveUrl
    \/ ResolveLocal
    \/ Load
    \/ Overlay
    \/ CompileSkipped
    \/ Compile
    \/ FindFirmware
    \/ Chip
    \/ Emit
    \/ Cleanup

Spec == Init /\ [][Next]_vars

(***************************************************************************)
(* Properties of the helper functions (checked under SpecFn).              *)
(***************************************************************************)
Returned(f) == fn = f /\ fpc = "ret"

\* the indices of the lines of content with the given text
LinesWith(content, text) == { i \in 1..Len(content) : content[i].text = text }

\* the lines of the section whose header is line h: up to the next blank line
SectionEnd(content, h) ==
    IF \E j \in (h + 1)..Len(content) : content[j] = Ln("")
    THEN (CHOOSE j \in (h + 1)..Len(content) :
             content[j] = Ln("") /\ \A k \in (h + 1)..(j - 1) : content[k] # Ln("")) - 1
    ELSE Len(content)
SectionLines(content, h) == (h + 1)..SectionEnd(content, h)

\* the platform entries of the section with the given header
PlatformEntries(content, header) ==
    { i \in 1..Len(content) :
        /\ content[i].text = "  - platform: http_request"
        /\ \E h \in LinesWith(content, header) : i \in SectionLines(content, h) }

\* the `source` values of the update section
UpdateSources(content) ==
    { content[i].arg : i \in { i \in 1..Len(content) :
        /\ content[i].text = "    source: {}"
        /\ \E h \in LinesWith(content, "update:") : i \in SectionLines(content, h) } }

\* u with its trailing slashes removed, said without rstrip: the prefix of u
\* that does not end in a slash and is followed in u by slashes only
SlashStripped(u) ==
    CHOOSE q \in { SubSeq(u, 1, n) : n \in 0..Len(u) } :
        /\ ~EndsWith(q, <<"/">>)
        /\ \A i \in (Len(q) + 1)..Len(u) : u[i] = "/"

\* whether the overlay imports the original file as a package, by its name
HasPackageImport(content, name) ==
    \E h \in LinesWith(content, "packages:") :
        \E i \in SectionLines(content, h) : content[i] = LnA("  original: !include {}", name)

\* C2: the overlay of create_factory_yaml always holds the package import of
\* the original file by its name; without a version it holds no ota section,
\* no update section and no project version; with a version it holds exactly
\* one ota platform entry and exactly one update platform entry, whose source
\* is the publish URL without its trailing slashes followed by /manifest.json.
C2_Overlay ==
    Returned("create_factory_yaml") =>
        LET content == output.content IN
        /\ HasPackageImport(content, input.yaml_file.name)
        /\ ~Truthy(input.version) =>
              /\ LinesWith(content, "ota:") = {}
              /\ LinesWith(content, "update:") = {}
              /\ LinesWith(content, "    version: \"{}\"") = {}
              /\ LinesWith(content, "    source: {}") = {}
        /\ Truthy(input.version) =>
              /\ Cardinality(LinesWith(content, "ota:")) = 1
              /\ Cardinality(LinesWith(content, "update:")) = 1
              /\ Cardinality(PlatformEntries(content, "ota:")) = 1
              /\ Cardinality(PlatformEntries(content, "update:")) = 1
              /\ UpdateSources(content) = { SlashStripped(input.publish_url) \o S_manifest }
              /\ \A src \in UpdateSources(content) :
                    ~EndsWith(src, <<"/">> \o S_manifest)

\* C2 witness: scenario B, https://example.com/fw/ with version 1.2.3
C2_Witness ==
    /\ Returned("create_factory_yaml")
    /\ input.publish_url = S_publish \o <<"/">>
    /\ input.version = Some(S_version)
    /\ UpdateSources(output.content) = { S_publish \o S_manifest }
    /\ Cardinality(PlatformEntries(output.content, "ota:")) = 1

\* C3: the manifest of generate_manifest has home_assistant_domain (esphome)
\* exactly when it has version; version is left out when the version is
\* unknown (absent or empty) and is the given one otherwise; builds holds one
\* build, with the given chipFamily and the one part firmware.bin at offset 0.
C3_Manifest ==
    Returned("generate_manifest") =>
        /\ ("home_assistant_domain" \in DOMAIN output) <=> ("version" \in DOMAIN output)
        /\ "home_assistant_domain" \in DOMAIN output => output.home_assistant_domain = "esphome"
        /\ (input.version = None \/ input.version = Some(<<>>)) => "version" \notin DOMAIN output
        /\ (input.version # None /\ input.version # Some(<<>>)) =>
              "version" \in DOMAIN output /\ output.version = Val(input.version)
        /\ output.name = input.name
        /\ Len(output.builds) = 1
        /\ output.builds[1].chipFamily = input.chip_family
        /\ output.builds[1].parts = << [path |-> "firmware.bin", offset |-> 0] >>

\* C3 witness: an empty version leaves the manifest with name and builds only
C3_Witness ==
    /\ Returned("generate_manifest")
    /\ input.version = Some(<<>>)
    /\ DOMAIN output = {"name", "builds"}

\* the five families in lower case without hyphen
Families ==
    { <<"e","s","p","3","2">>, <<"e","s","p","3","2","c","3">>, <<"e","s","p","3","2","s","2">>,
      <<"e","s","p","3","2","s","3">>, <<"e","s","p","8","2","6","6">> }

\* the canonical spelling of a family: ESP32-xx has a hyphen after ESP32
Canonical(f) ==
    IF Len(f) = 7 /\ StartsWith(f, <<"e","s","p","3","2">>)
    THEN Upper(InsertHyphen(f, 5)) ELSE Upper(f)

\* s case-folded and without any hyphen
FoldStrip(s) == Replace(Lower(s), <<"-">>, <<>>)

\* C7 as claimed: every input that is a family after case folding and
\* stripping any hyphen gets the family's canonical spelling, any other input
\* is upper-cased, and a non-empty input gives a non-empty output.
C7_AnyHyphen ==
    Returned("normalize_chip_family") =>
        /\ input # <<>> => output # <<>>
        /\ FoldStrip(input) \in Families => output = Canonical(FoldStrip(input))
        /\ FoldStrip(input) \notin Families => output = Upper(input)

\* the spellings the code knows: the family case-folded, without hyphen or
\* with the hyphen of the canonical spelling
KnownSpelling(s) == Lower(s) \in Families \cup { Lower(Canonical(f)) : f \in Families }

\* C7 amended: every input that after case folding is a family, without
\* hyphen or with the one hyphen of the canonical spelling, gets the family's
\* canonical spelling; any other input (a hyphen placed elsewhere included) is
\* upper-cased as it is; a non-empty input gives a non-empty output.
C7_Normalize ==
    Returned("normalize_chip_family") =>
        /\ input # <<>> => output # <<>>
        /\ KnownSpelling(input) => output = Canonical(FoldStrip(input))
        /\ ~KnownSpelling(input) => output = Upper(input)

\* C7 witness: ESP32C3 gives ESP32-C3
C7_Witness ==
    /\ Returned("normalize_chip_family")
    /\ input = <<"E","S","P","3","2","C","3">>
    /\ output = <<"E","S","P","3","2","-","C","3">>

\* whether the variant names sub-variant x (c3, s2, s3), in any case, with or
\* without the hyphen
Names(variant, x) ==
    variant # None /\ Lower(Val(variant)) \in { <<"e","s","p","3","2">> \o x,
                                                 <<"e","s","p","3","2","-">> \o x }

\* whether the board holds the substring x in any case
BoardHas(board, x) ==
    board # None /\ \E i \in 1..Len(Val(board)) :
        i + 1 <= Len(Val(board)) /\ Lower(SubSeq(Val(board), i, i + 1)) = x

SubVariants == { S_c3, S_s2, S_s3 }

\* the family of sub-variant x
SubFamily(x) == <<"E","S","P","3","2","-">> \o Upper(x)

WholePlaceholder(substitutions, value) ==
    { i \in 1..Len(substitutions) :
        value.t = "str" /\ value.s = Placeholder(substitutions[i].key) }

\* whether text holds the placeholder of an item declared after item i
HoldsLater(substitutions, i, text) ==
    \E j \in (i + 1)..Len(substitutions) : Contains(text, Placeholder(substitutions[j].key))

\* C9 as claimed: the text inserted for a placeholder is never replaced by any
\* item, declared earlier or later, so the value of the item appears verbatim;
\* a placeholder without item is left as it is; a non-string is unchanged.
C9_NotRecursive ==
    Returned("expand_substitutions") =>
        /\ \A i \in WholePlaceholder(input.substitutions, input.value) :
              output = StrV(Str(input.substitutions[i].val))
        /\ (input.value.t = "str" /\ StartsWith(input.value.s, Placeholder(<<"z">>))) =>
              output.t = "str" /\ StartsWith(output.s, Placeholder(<<"z">>))
        /\ input.value.t # "str" => output = input.value

\* C9 amended: the items are applied once each in declaration order, so the
\* text inserted for a placeholder is never scanned by its own item or by an
\* item declared earlier, and appears verbatim unless it holds the placeholder
\* of an item declared later, which is replaced in turn; a placeholder without
\* item is left as it is; a non-string is unchanged.
C9_Expand ==
    Returned("expand_substitutions") =>
        /\ \A i \in WholePlaceholder(input.substitutions, input.value) :
              LET text == Str(input.substitutions[i].val) IN
              /\ ~HoldsLater(input.substitutions, i, text) => output = StrV(text)
              /\ \A j \in (i + 1)..Len(input.substitutions) :
                    (/\ text = Placeholder(input.substitutions[j].key)
                     /\ ~HoldsLater(input.substitutions, j, Str(input.substitutions[j].val)))
                    => output = StrV(Str(input.substitutions[j].val))
        /\ (input.value.t = "str" /\ StartsWith(input.value.s, Placeholder(<<"z">>))) =>
              output.t = "str" /\ StartsWith(output.s, Placeholder(<<"z">>))
        /\ input.value.t # "str" => output = input.value

\* C9 witness: the value of a is ${b} and b is declared before a, so ${a}
\* expands to ${b} verbatim
C9_Witness ==
    /\ Returned("expand_substitutions")
    /\ input.value = StrV(Placeholder(<<"a">>))
    /\ Len(input.substitutions) = 2
    /\ input.substitutions[1].key = <<"b">>
    /\ input.substitutions[2] = [key |-> <<"a">>, val |-> StrV(Placeholder(<<"b">>))]
    /\ output = StrV(Placeholder(<<"b">>))

\* the build-tree firmware images: firmware.bin files in the immediate
\* subdirectories of the build directory of the project
BuildImages(f, yaml, project) ==
    { BuildFirmware(yaml, project, d.name) :
        d \in { d \in f.subdirs : f.build_dir = "dir" /\ d.is_dir /\ d.fw = "file" } }

\* the precedence of C11 for the call that returned
Precedence ==
    LET f == input.fs
        images == BuildImages(f, input.yaml_file, input.project_name)
    IN  /\ ~output.raised
        /\ f.sibling_bin = "file" => output.path = Some(SiblingBin(input.yaml_file))
        /\ (f.sibling_bin # "file" /\ images # {}) =>
              output.path # None /\ Val(output.path) \in images
        /\ (f.sibling_bin # "file" /\ images = {}) => output.path = None
        /\ output.path # None =>
              EntryKind(f, input.yaml_file, input.project_name, Val(output.path)) = "file"

\* C11: find_firmware returns the file <stem>.bin beside the configuration
\* when it exists, even when the build tree holds an image; otherwise a
\* firmware.bin of an immediate subdirectory of the build directory of the
\* project when there is one; otherwise not found.  A returned path always
\* names an existing file.
C11_Precedence ==
    Returned("find_firmware") => Precedence

\* whether every entry find_firmware looks at is what its name suggests:
\* <stem>.bin and firmware.bin are no directories, .pioenvs is no file
RegularFs(f) ==
    /\ f.sibling_bin # "dir"
    /\ f.build_dir # "file"
    /\ \A d \in f.subdirs : d.fw # "dir"

\* C11 on the file systems without such entries: there the precedence holds,
\* so the claim fails only through exists() being true of a directory and
\* iterdir() raising on a file
C11_RegularFiles ==
    (Returned("find_firmware") /\ RegularFs(input.fs)) => Precedence

\* C11 scenario D reached: no sibling .bin, an image in the build tree of
\* kitchen, and that path returned
C11_ScenarioD ==
    /\ Returned("find_firmware")
    /\ input.fs.sibling_bin = "absent"
    /\ input.project_name = <<"k","i","t","c","h","e","n">>
    /\ output.path = Some(BuildFirmware(input.yaml_file, input.project_name, EnvName(1)))
    /\ Val(output.path) \in BuildImages(input.fs, input.yaml_file, input.project_name)

(***************************************************************************)
(* Properties of a run of main (checked under Spec).                       *)
(***************************************************************************)
Ended == pc \in {"done", "error"}

\* the positions of event e
EventsAt(e) == { i \in 1..Len(events) : events[i] = e }

\* C1: in every run that downloaded its source, the scratch directory has been
\* removed when the run ends, whichever way it ends.
C1_ScratchRemoved ==
    (Ended /\ temp_dir # None) => scratch = "removed"

\* whether the overlay holds neither an ota nor an update section
NoOtaSections(content) ==
    LinesWith(content, "ota:") = {} /\ LinesWith(content, "update:") = {}

\* C4: when the overlay is synthesized without ota and update sections, the
\* warning was shown before the overlay was synthesized and before the
\* compiler was invoked, and the run went on to the compilation.
C4_WarnedBeforeOverlay ==
    (factory # None /\ NoOtaSections(Val(factory).content)) =>
        /\ \E w \in EventsAt("warn_no_version") :
              /\ \A c \in EventsAt("create_factory_yaml") : w < c
              /\ \A c \in EventsAt("subprocess") : w < c
        /\ \A c \in EventsAt("create_factory_yaml") :
              c + 1 <= Len(events) => events[c + 1] # "error"

\* s split at its slashes
RECURSIVE SplitSlash(_)
SplitSlash(s) ==
    IF \E i \in 1..Len(s) : s[i] = "/"
    THEN LET k == CHOOSE i \in 1..Len(s) : s[i] = "/" /\ \A j \in 1..(i - 1) : s[j] # "/"
         IN  <<SubSeq(s, 1, k - 1)>> \o SplitSlash(Drop(s, k + 1))
    ELSE <<s>>

\* the segments joined by slashes
RECURSIVE JoinSlash(_)
JoinSlash(segs) ==
    IF Len(segs) = 0 THEN <<>>
    ELSE IF Len(segs) = 1 THEN segs[1]
    ELSE segs[1] \o <<"/">> \o JoinSlash(Tail(segs))

\* whether url is https://github.com/<owner>/<repo>/blob/<ref>/<path>
IsBlobUrl(url) ==
    LET segs == SplitSlash(url) IN
    /\ Len(segs) >= 8
    /\ segs[1] = <<"h","t","t","p","s",":">> /\ segs[2] = <<>>
    /\ segs[3] = <<"g","i","t","h","u","b",".","c","o","m">>
    /\ segs[4] # <<>> /\ segs[5] # <<>>
    /\ segs[6] = <<"b","l","o","b">>
    /\ segs[7] # <<>>
    /\ JoinSlash(SubSeq(segs, 8, Len(segs))) # <<>>

\* <scheme>://<owner>/<repo>/<path>@<ref> of a blob URL
ImportUrlOf(url) ==
    LET segs == SplitSlash(url) IN
    <<"g","i","t","h","u","b",":","/","/">> \o segs[4] \o <<"/">> \o segs[5] \o <<"/">>
        \o JoinSlash(SubSeq(segs, 8, Len(segs))) \o <<"@">> \o segs[7]

\* the import URLs of the dashboard_import sections of the overlay
DashboardImports(content) ==
    { content[i].arg : i \in { i \in 1..Len(content) :
        /\ content[i].text = "  package_import_url: {}"
        /\ \E h \in LinesWith(content, "dashboard_import:") : i \in SectionLines(content, h) } }

\* whether the Source Resolver rewrites the source
Rewritten(source) == IsUrl(source) /\ convert_to_raw_url(source) # source

\* C5 as claimed: the overlay holds a dashboard_import section exactly when the
\* source is a URL the Source Resolver rewrites; for a blob URL the import URL
\* is <scheme>://<owner>/<repo>/<path>@<ref>.
C5_ImportIffRewritten ==
    factory # None =>
        /\ DashboardImports(Val(factory).content) # {} <=> Rewritten(args.yaml_source)
        /\ IsBlobUrl(args.yaml_source) =>
              DashboardImports(Val(factory).content) = { ImportUrlOf(args.yaml_source) }

\* C5 amended: the overlay holds a dashboard_import section exactly when the
\* source is a blob URL https://github.com/<owner>/<repo>/blob/<ref>/<path>
\* (a paste-hosting URL, which the Source Resolver also rewrites, gets none),
\* whether or not a version is known; its import URL is then
\* github://<owner>/<repo>/<path>@<ref>.
C5_ImportIffBlob ==
    factory # None =>
        /\ DashboardImports(Val(factory).content) # {} <=> IsBlobUrl(args.yaml_source)
        /\ LinesWith(Val(factory).content, "dashboard_import:") # {}
              <=> IsBlobUrl(args.yaml_source)
        /\ IsBlobUrl(args.yaml_source) =>
              DashboardImports(Val(factory).content) = { ImportUrlOf(args.yaml_source) }

\* C5 witness: a blob URL source, no version known, and the import URL
\* github://o/r/d/f.yaml@m in the overlay
C5_Witness ==
    /\ factory # None
    /\ args.yaml_source = S_blob_url
    /\ version = None
    /\ DashboardImports(Val(factory).content) =
          { <<"g","i","t","h","u","b",":","/","/","o","/","r","/","d","/","f",".","y","a","m","l","@","m">> }

Taxonomy == {"NotFoundError", "DownloadError", "ParseError", "DetectionError", "CompileError"}

\* C6: every error of the taxonomy ends the run, and the site is never written
\* in a run where the source is missing, the download fails, the compiler is
\* absent or exits non-zero, no firmware is located, or no chip family is given
\* and none detected (no default is assumed); nothing is retried: the download
\* and the compiler each run at most once.
C6_ErrorsTerminal ==
    /\ err # None <=> pc = "error"
    /\ \A i \in EventsAt("error") : i = Len(events) /\ pc = "error"
    /\ (err # None /\ Val(err).kind \in Taxonomy) =>
          site = None /\ EventsAt("generate_site") = {}
    /\ (which # None /\ ~Val(which).esphome /\ ~Val(which).uvx) =>
          err = Some([kind |-> "CompileError", code |-> 0]) /\ cmds = <<>>
    /\ \A i \in 1..Len(cmds) : cmds[i].returncode # 0 =>
          pc = "error" /\ Val(err).kind = "CompileError" /\ site = None
    /\ (fs # None /\ firmware = None) =>
          pc = "error" /\ Val(err).kind \in {"NotFoundError", "NotADirectoryError"} /\ site = None
    /\ (config # None /\ args.chip_family = None
          /\ Val(config).esp32 = None /\ Val(config).esp8266 = None) =>
          chip_family = None /\ site = None /\ pc \notin {"emit", "cleanup", "done"}
    /\ yaml_file = None => pc \in {"resolve", "error"} /\ site = None
    /\ Cardinality(EventsAt("download")) <= 1
    /\ Cardinality(EventsAt("subprocess")) <= 1
    /\ Len(cmds) = Cardinality(EventsAt("subprocess"))

\* C6 witness: the compiler ran once and left with status 2, the run ended
\* with the error and no site
C6_Witness ==
    /\ pc = "error"
    /\ err = Some([kind |-> "CompileError", code |-> 2])
    /\ Len(cmds) = 1 /\ cmds[1].returncode = 2
    /\ site = None

\* what holds of every invocation whatever the flags: the working directory,
\* the file compiled, and the error of a non-zero exit status
InvocationContract ==
    \A i \in 1..Len(cmds) :
        /\ cmds[i].cwd = cmds[i].file.parent
        /\ cmds[i].cwd = Val(yaml_file).parent
        /\ cmds[i].file = IF factory # None THEN Val(factory).path ELSE Val(yaml_file)
        /\ cmds[i].returncode # 0 =>
              pc = "error" /\ err = Some([kind |-> "CompileError", code |-> cmds[i].returncode])

\* C10 as claimed: in every invocation the locally installed compiler is
\* tried first and uvx is used only if it is unavailable; the compiler runs in
\* the parent of the configuration file, on the overlay when one was
\* synthesized; a non-zero exit status is an error carrying the status.
C10_LocalFirst ==
    /\ \A i \in 1..Len(cmds) :
          /\ Val(which).esphome => cmds[i].cmd = "esphome"
          /\ cmds[i].cmd # "esphome" => ~Val(which).esphome /\ Val(which).uvx
    /\ (which # None /\ Val(which).esphome) => Len(cmds) = 1
    /\ InvocationContract

\* C10 amended: without the pre-release flag the locally installed compiler is
\* tried first and uvx is used only if it is unavailable; with the pre-release
\* flag uvx is always the one used, and its absence ends the run with an error
\* even when a local compiler is installed.  The rest is as claimed.
C10_Compiler ==
    /\ ~args.pre_release =>
          /\ \A i \in 1..Len(cmds) :
                /\ Val(which).esphome => cmds[i].cmd = "esphome"
                /\ cmds[i].cmd # "esphome" =>
                      ~Val(which).esphome /\ Val(which).uvx /\ cmds[i].cmd = "uvx esphome"
          /\ (which # None /\ (Val(which).esphome \/ Val(which).uvx)) => Len(cmds) = 1
    /\ args.pre_release =>
          /\ \A i \in 1..Len(cmds) :
                Val(which).uvx /\ cmds[i].cmd = "uvx --prerelease allow --refresh esphome"
          /\ (which # None /\ Val(which).uvx) => Len(cmds) = 1
          /\ (which # None /\ ~Val(which).uvx) =>
                cmds = <<>> /\ err = Some([kind |-> "CompileError", code |-> 0])
    /\ InvocationContract

\* C10 witness: no local compiler, uvx run on the overlay, exit status 2
C10_Witness ==
    /\ ~args.pre_release
    /\ which = Some([esphome |-> FALSE, uvx |-> TRUE])
    /\ factory # None
    /\ Len(cmds) = 1
    /\ cmds[1].cmd = "uvx esphome"
    /\ cmds[1].file = Val(factory).path
    /\ cmds[1].returncode = 2
    /\ err = Some([kind |-> "CompileError", code |-> 2])

=============================================================================
